---- MODULE Spec2Model ----
(***************************************************************************)
(* A model of the angular-voice recorder: AudioRecorderService (the        *)
(* AudioWorklet variant of projects/angular-voice-run/src/app/app.ts) and  *)
(* the AngularVoice component, together with the browser facilities they   *)
(* drive (getUserMedia, MediaRecorder, AudioContext / AudioWorkletNode).   *)
(*                                                                         *)
(* JavaScript is single threaded: every action below is one synchronous    *)
(* run of code between two suspension points.  A continuation that is      *)
(* only waiting for a microtask (an await of an already settled promise)   *)
(* runs before any platform event; see MicrotaskPending.                   *)
(***************************************************************************)
EXTENDS Integers, Sequences, FiniteSets, TLC

\* ------------------------------------------------------------------ bounds
MaxCalls == 4        \* service calls (prepare/start/stop) issued in one behaviour
MaxInFlight == 2     \* service calls that may be pending at the same time
MaxBuf == 1          \* sample blocks kept in pcmBuffers
MaxEmit == 4         \* emissions after which send() is no longer invoked on its own
MaxBlocks == 2       \* sample blocks handed to encodeWavFromPcm
MaxBlockLen == 1     \* samples in one such block

\* --------------------------------------------------------------- constants
DefaultSampleRate == 48000
Rates == {44100, 48000}          \* rates an AudioContext may settle on
DesiredRates == {0, 44100}       \* desiredSampleRate arguments tried (0 = omitted)
Formats == {"webm", "wav"}       \* RecorderFormat
WebmOpus == "audio/webm;codecs=opus"
Webm == "audio/webm"
WebmPcm == "audio/webm;codecs=pcm"
Wav == "audio/wav"
SupportedEnvs == {{}, {WebmOpus, Webm}}   \* what isTypeSupported accepts
Slots == 1..MaxInFlight
\* the teardown call of cleanupWav() that throws in this environment, if any
TeardownFaults == {"none", "tap", "source", "close"}

VARIABLES
    isBrowser,      \* environment: window and navigator.mediaDevices exist
    teardownFails,  \* environment: which teardown call throws, see TeardownFaults
    supported,      \* environment: mime types MediaRecorder.isTypeSupported accepts
    mediaStream,    \* service field: 0 = undefined, n = the n-th granted stream
    mediaRecorder,  \* service field: 0 = undefined, r = index into recorders
    chunks,         \* service field: Blob[], each chunk named by its recorder
    audioCtx,       \* service field: 0 = undefined, x = index into contexts
    sourceNode,     \* service field: 0 = undefined, n = index into nodes
    workletNode,    \* service field: 0 = undefined, n = index into nodes
    pcmBuffers,     \* service field: Float32Array[], each block named by its node
    sampleRate,     \* service field
    recorders,      \* platform: every MediaRecorder created so far
    contexts,       \* platform: every AudioContext created so far
    nodes,          \* platform: every source -> worklet pair created so far
    calls,          \* the pending or last call of each slot
    ncalls,         \* calls issued so far
    gumCalls,       \* history: getUserMedia invocations
    granted,        \* history: streams granted by getUserMedia
    overlap,        \* history: a prepare/start was issued while another was pending
    recording,      \* component: the recording() signal
    result,         \* component: the result() signal, NoResult = null
    hasFile,        \* component: activeRecordingFile is not null
    previousUrl,    \* component: 0 = null, u = the u-th object URL created
    urlMemo,        \* component: the value audioUrl last computed
    urlDirty,       \* component: result changed since audioUrl was computed
    liveUrls,       \* platform: object URLs created and not revoked
    nurls,          \* platform: object URLs created so far
    toggles,        \* component: the toggleRecord() awaiting the call of each slot
    emitted,        \* history: what recordingCompleted has emitted
    encBuffers,     \* encodeWavFromPcm: its buffers argument
    encSampleRate,  \* encodeWavFromPcm: its sampleRate argument
    encBlob         \* encodeWavFromPcm: the bytes of the Blob returned, <<>> before the call

envVars == <<isBrowser, teardownFails, supported>>
fieldVars == <<mediaStream, mediaRecorder, chunks, audioCtx, sourceNode,
               workletNode, pcmBuffers, sampleRate>>
platformVars == <<recorders, contexts, nodes>>
histVars == <<gumCalls, granted, overlap>>
svcVars == <<envVars, fieldVars, platformVars, calls, ncalls, histVars>>
compVars == <<recording, result, hasFile, previousUrl, urlMemo, urlDirty, liveUrls,
              nurls, toggles, emitted>>
encVars == <<encBuffers, encSampleRate, encBlob>>
vars == <<svcVars, compVars, encVars>>

\* ----------------------------------------------------------------- helpers
NoResult == [mime |-> "", data |-> <<>>, rate |-> 0, ctx |-> 0]
NoCall == [op |-> "none", pc |-> "idle", format |-> "", rate |-> 0, rec |-> 0,
           idle |-> FALSE, res |-> NoResult]

Settled(c) == calls[c].pc \in {"idle", "done", "failed"}
FreeSlots == {c \in Slots : Settled(c)}
\* the slot a new call takes: the lowest settled one
NextSlot(c) == FreeSlots # {} /\ c = CHOOSE m \in FreeSlots : \A k \in FreeSlots : m <= k
CanCall(c) == ncalls < MaxCalls /\ NextSlot(c)

NoToggle == [kind |-> "none", by |-> ""]
\* a continuation that needs no platform event: it runs in the current task
MicrotaskPending ==
    \E c \in Slots : \/ calls[c].pc = "prepared"
                     \/ toggles[c] # NoToggle /\ Settled(c)

AcquiringPending ==
    \E c \in Slots : calls[c].op \in {"prepare", "start"} /\ ~Settled(c)

\* the service holds a capture session (recorder handle or audio graph)
HoldsSession ==
    mediaRecorder # 0 \/ audioCtx # 0 \/ workletNode # 0 \/ sourceNode # 0

IsPrefix(s, t) == Len(s) <= Len(t) /\ SubSeq(t, 1, Len(s)) = s

supportsMediaRecorder(mime) == mime \in supported

pickWebmMime ==
    IF supportsMediaRecorder(WebmOpus) THEN WebmOpus
    ELSE IF supportsMediaRecorder(Webm) THEN Webm
    ELSE IF supportsMediaRecorder(WebmPcm) THEN WebmPcm
    ELSE Webm

\* an AudioContext built with an explicit sampleRate runs at that rate,
\* otherwise at the rate of the output device
NegotiatedRate(desired, hw) == IF desired = 0 THEN hw ELSE desired

\* a tap produces sample blocks while it is connected in a running context
Producing(n) == nodes[n].st = "live"
LiveRecorders == {r \in 1..Len(recorders) : recorders[r].state # "inactive"}
LiveTaps == {n \in 1..Len(nodes) : Producing(n)}

SetCall(c, rec) == calls' = [calls EXCEPT ![c] = rec]

\* a settled prepare()/start(): its promise carries no value
Ended(op, pc) == [NoCall EXCEPT !.op = op, !.pc = pc]

\* the service and the component after construction
Constructed ==
    /\ isBrowser \in BOOLEAN
    /\ supported \in SupportedEnvs
    /\ mediaStream = 0
    /\ mediaRecorder = 0
    /\ chunks = <<>>
    /\ audioCtx = 0
    /\ sourceNode = 0
    /\ workletNode = 0
    /\ pcmBuffers = <<>>
    /\ sampleRate = DefaultSampleRate
    /\ recorders = <<>>
    /\ contexts = <<>>
    /\ nodes = <<>>
    /\ calls = [c \in Slots |-> NoCall]
    /\ ncalls = 0
    /\ gumCalls = 0
    /\ granted = 0
    /\ overlap = FALSE
    /\ recording = FALSE
    /\ result = NoResult
    /\ hasFile = FALSE
    /\ previousUrl = 0
    /\ urlMemo = 0
    /\ urlDirty = TRUE
    /\ liveUrls = {}
    /\ nurls = 0
    /\ toggles = [c \in Slots |-> NoToggle]
    /\ emitted = <<>>

Init ==
    /\ Constructed
    /\ teardownFails = "none"
    /\ encBuffers = <<>>
    /\ encSampleRate = DefaultSampleRate
    /\ encBlob = <<>>

\* ------------------------------------------------------ AudioRecorderService

\* prepare() without its "already prepared" return
prepareIgnoresHeldStream == ~isBrowser

\* prepare(): the two early returns
prepareReturnsEarly == ~isBrowser \/ mediaStream # 0

\* prepare() called directly, up to its await of getUserMedia
PrepareCall(c) ==
    /\ CanCall(c)
    /\ ncalls' = ncalls + 1
    /\ overlap' = (overlap \/ AcquiringPending)
    /\ IF prepareReturnsEarly
         THEN /\ SetCall(c, Ended("prepare", "done"))
              /\ gumCalls' = gumCalls
         ELSE /\ SetCall(c, [NoCall EXCEPT !.op = "prepare", !.pc = "gum"])
              /\ gumCalls' = gumCalls + 1
    /\ UNCHANGED <<envVars, fieldVars, platformVars, granted>>
    /\ UNCHANGED <<compVars, encVars>>

\* a strategy test that looks at the platform only
usesMediaRecorderAnyFormat(format) == supportsMediaRecorder(Webm)

\* the strategy test of start()
usesMediaRecorder(format) == format = "webm" /\ supportsMediaRecorder(Webm)

\* desiredSampleRate is read on the raw path only
rateRead(format, desired) == IF usesMediaRecorder(format) THEN 0 ELSE desired

\* start(format, desiredSampleRate), up to its await of prepare()
StartCall(c, format, desired) ==
    /\ CanCall(c)
    /\ ncalls' = ncalls + 1
    /\ overlap' = (overlap \/ AcquiringPending)
    /\ IF ~isBrowser
         THEN \* throw new Error('Recording only works in browser.')
              /\ SetCall(c, Ended("start", "failed"))
              /\ gumCalls' = gumCalls
         ELSE IF prepareReturnsEarly
         THEN /\ SetCall(c, [NoCall EXCEPT !.op = "start", !.pc = "prepared",
                                           !.format = format,
                                           !.rate = rateRead(format, desired)])
              /\ gumCalls' = gumCalls
         ELSE /\ SetCall(c, [NoCall EXCEPT !.op = "start", !.pc = "gum",
                                           !.format = format,
                                           !.rate = rateRead(format, desired)])
              /\ gumCalls' = gumCalls + 1
    /\ UNCHANGED <<envVars, fieldVars, platformVars, granted>>

\* getUserMedia resolves: prepare() stores the stream and returns
Grant(c) ==
    /\ calls[c].pc = "gum"
    /\ ~MicrotaskPending
    /\ granted' = granted + 1
    /\ mediaStream' = granted + 1
    /\ SetCall(c, IF calls[c].op = "start" THEN [calls[c] EXCEPT !.pc = "prepared"]
                  ELSE Ended("prepare", "done"))
    /\ UNCHANGED <<envVars, mediaRecorder, chunks, audioCtx, sourceNode, workletNode,
                   pcmBuffers, sampleRate, platformVars, ncalls, gumCalls, overlap>>
    /\ UNCHANGED <<compVars, encVars>>

\* getUserMedia rejects (permission denied, no device): the error reaches the caller
Deny(c) ==
    /\ calls[c].pc = "gum"
    /\ ~MicrotaskPending
    /\ SetCall(c, Ended(calls[c].op, "failed"))
    /\ UNCHANGED <<envVars, fieldVars, platformVars, ncalls, histVars>>
    /\ UNCHANGED <<compVars, encVars>>

\* start() after prepare(): reset the buffers, then arm one strategy

StartResume(c) ==
    /\ calls[c].pc = "prepared"
    /\ chunks' = <<>>
    /\ pcmBuffers' = <<>>
    /\ IF usesMediaRecorder(calls[c].format)
         THEN /\ recorders' = Append(recorders,
                     [state |-> "recording", ev |-> "none", onstop |-> 0,
                      mime |-> pickWebmMime, sent |-> FALSE])
              /\ mediaRecorder' = Len(recorders) + 1
              /\ SetCall(c, Ended("start", "done"))
              /\ UNCHANGED <<audioCtx, sampleRate, contexts>>
         ELSE /\ \E hw \in Rates :
                    /\ contexts' = Append(contexts,
                          [rate |-> NegotiatedRate(calls[c].rate, hw), closed |-> FALSE,
                           mod |-> FALSE])
                    /\ sampleRate' = NegotiatedRate(calls[c].rate, hw)
              /\ audioCtx' = Len(contexts) + 1
              /\ SetCall(c, [calls[c] EXCEPT !.pc = "module", !.rate = 0,
                                             !.rec = Len(contexts) + 1])
              /\ UNCHANGED <<mediaRecorder, recorders>>
    /\ UNCHANGED <<envVars, mediaStream, sourceNode, workletNode, nodes, ncalls, histVars>>
    /\ UNCHANGED <<compVars, encVars>>

\* audioWorklet.addModule resolves (calls[c].rec is the context it was called
\* on): start() builds source -> tap -> destination in the context the field
\* audioCtx holds by now
ModuleLoaded(c) ==
    /\ calls[c].pc = "module"
    /\ ~MicrotaskPending
    /\ contexts' = IF contexts[calls[c].rec].closed
                      THEN contexts   \* closed meanwhile, never used again
                      ELSE [contexts EXCEPT ![calls[c].rec].mod = TRUE]
    /\ IF audioCtx = 0
         THEN \* this.audioCtx is undefined: createMediaStreamSource throws a TypeError
              /\ SetCall(c, Ended("start", "failed"))
              /\ UNCHANGED <<sourceNode, workletNode, nodes>>
         ELSE IF ~contexts'[audioCtx].mod
         THEN \* the source is created, then new AudioWorkletNode throws: the
              \* processor is not registered in this context
              /\ nodes' = Append(nodes, [ctx |-> 0, on |-> FALSE, st |-> "dead"])
              /\ sourceNode' = Len(nodes) + 1
              /\ workletNode' = workletNode
              /\ SetCall(c, Ended("start", "failed"))
         ELSE /\ nodes' = Append(nodes, [ctx |-> audioCtx, on |-> TRUE, st |-> "live"])
              /\ sourceNode' = Len(nodes) + 1
              /\ workletNode' = Len(nodes) + 1
              /\ SetCall(c, Ended("start", "done"))
    /\ UNCHANGED <<envVars, mediaStream, mediaRecorder, chunks, audioCtx, pcmBuffers,
                   sampleRate, recorders, ncalls, histVars>>
    /\ UNCHANGED <<compVars, encVars>>

\* cleanupMediaRecorder() that also lets go of the stream
cleanupMediaRecorderDropsStream ==
    /\ mediaRecorder' = 0
    /\ chunks' = <<>>
    /\ mediaStream' = 0

\* cleanupMediaRecorder(): drops the handle and the chunks, keeps the stream
cleanupMediaRecorder ==
    /\ mediaRecorder' = 0
    /\ chunks' = <<>>
    /\ mediaStream' = mediaStream

\* the try block of cleanupWav(): the three calls run in order, and one that
\* throws ends the block, so the calls after it are not made
tapThrows == workletNode # 0 /\ teardownFails = "tap"
sourceThrows == ~tapThrows /\ sourceNode # 0 /\ teardownFails = "source"
closeThrows == ~tapThrows /\ ~sourceThrows /\ audioCtx # 0 /\ teardownFails = "close"
tapDisconnected == workletNode # 0 /\ ~tapThrows
sourceDisconnected == sourceNode # 0 /\ ~tapThrows /\ ~sourceThrows
contextClosed == audioCtx # 0 /\ ~tapThrows /\ ~sourceThrows /\ ~closeThrows

\* what disconnecting the held pair and closing the held context does to the taps
TornDown(n) ==
    /\ nodes[n].st = "live"
    /\ \/ n = workletNode /\ tapDisconnected
       \/ n = sourceNode /\ sourceDisconnected
       \/ nodes[n].ctx = audioCtx /\ contextClosed

\* cleanupWav(): disconnect tap and source, close the context, clear the fields
cleanupWav ==
    /\ nodes' = [n \in 1..Len(nodes) |->
                   IF TornDown(n) THEN [nodes[n] EXCEPT !.st = "late"] ELSE nodes[n]]
    /\ contexts' = [x \in 1..Len(contexts) |->
                      IF x = audioCtx /\ contextClosed
                        THEN [contexts[x] EXCEPT !.closed = TRUE, !.mod = FALSE]
                      ELSE contexts[x]]
    /\ workletNode' = 0
    /\ sourceNode' = 0
    /\ audioCtx' = 0
    /\ pcmBuffers' = <<>>
    /\ mediaStream' = mediaStream

\* the branch stop() takes
stopUsesRecorder(format) == format = "webm" /\ mediaRecorder # 0

\* the WAV result: encodeWavFromPcm(this.pcmBuffers, this.sampleRate)
WavResult == [mime |-> Wav, data |-> pcmBuffers, rate |-> sampleRate, ctx |-> audioCtx]

\* the compressed result: new Blob(this.chunks, {type: recorder.mimeType})
WebmResult(r) == [mime |-> recorders[r].mime, data |-> chunks, rate |-> 0, ctx |-> 0]

\* stop(format), up to its await of the recorder's onstop (compressed path) or to
\* its return (WAV path).  Outside a browser Blob and File may be missing, and
\* then the WAV path throws.
StopCall(c, format) ==
    /\ CanCall(c)
    /\ ncalls' = ncalls + 1
    /\ IF stopUsesRecorder(format)
         THEN /\ recorders' = [recorders EXCEPT ![mediaRecorder] =
                    [@ EXCEPT !.onstop = c,
                              !.state = "inactive",
                              !.ev = IF @ = "none" /\ recorders[mediaRecorder].state # "inactive"
                                       THEN "data" ELSE @]]
              /\ SetCall(c, [NoCall EXCEPT !.op = "stop", !.pc = "ack",
                                           !.rec = mediaRecorder, !.idle = ~HoldsSession])
              /\ UNCHANGED <<fieldVars, contexts, nodes>>
         ELSE /\ \E ok \in {TRUE} \cup {isBrowser} :
                    SetCall(c, [NoCall EXCEPT !.op = "stop",
                                              !.pc = IF ok THEN "done" ELSE "failed",
                                              !.idle = ~HoldsSession,
                                              !.res = IF ok THEN WavResult ELSE NoResult])
              /\ cleanupWav
              /\ UNCHANGED <<mediaRecorder, chunks, sampleRate, recorders>>
    /\ UNCHANGED <<envVars, histVars>>

\* pause(): delegate to the recorder, detach the tap's message handler
Pause ==
    /\ recorders' = IF mediaRecorder # 0 /\ recorders[mediaRecorder].state = "recording"
                      THEN [recorders EXCEPT ![mediaRecorder].state = "paused"]
                      ELSE recorders
    /\ nodes' = IF workletNode # 0
                  THEN [nodes EXCEPT ![workletNode].on = FALSE]
                  ELSE nodes
    /\ UNCHANGED <<envVars, fieldVars, contexts, calls, ncalls, histVars>>
    /\ UNCHANGED <<compVars, encVars>>

\* resume(): delegate to the recorder, attach a fresh message handler
Resume ==
    /\ recorders' = IF mediaRecorder # 0 /\ recorders[mediaRecorder].state = "paused"
                      THEN [recorders EXCEPT ![mediaRecorder].state = "recording"]
                      ELSE recorders
    /\ nodes' = IF workletNode # 0
                  THEN [nodes EXCEPT ![workletNode].on = TRUE]
                  ELSE nodes
    /\ UNCHANGED <<envVars, fieldVars, contexts, calls, ncalls, histVars>>
    /\ UNCHANGED <<compVars, encVars>>

\* ------------------------------------------------------------ platform events

\* A MediaRecorder started without a timeslice delivers its data once, when it
\* becomes inactive, and then fires stop.  ondataavailable keeps non-empty data.
DataAvailable(r, size) ==
    /\ recorders[r].ev = "data"
    /\ ~MicrotaskPending
    /\ IF size # 0
         THEN /\ chunks' = Append(chunks, r)
              /\ recorders' = [recorders EXCEPT ![r].ev = "stop", ![r].sent = TRUE]
         ELSE /\ chunks' = chunks
              /\ recorders' = [recorders EXCEPT ![r].ev = "stop"]
    /\ UNCHANGED <<envVars, mediaStream, mediaRecorder, audioCtx, sourceNode, workletNode,
                   pcmBuffers, sampleRate, contexts, nodes, calls, ncalls, histVars>>
    /\ UNCHANGED <<compVars, encVars>>

\* the stop event: recorder.onstop resolves the promise of the stop() that set it,
\* and that stop() builds the result and cleans up.  The recorder fires nothing
\* afterwards, so its handler and delivery record are dropped.
OnStop(r) ==
    /\ recorders[r].ev = "stop"
    /\ ~MicrotaskPending
    /\ recorders' = [recorders EXCEPT ![r].ev = "none", ![r].onstop = 0, ![r].sent = FALSE]
    /\ IF recorders[r].onstop # 0 /\ calls[recorders[r].onstop].pc = "ack"
            /\ calls[recorders[r].onstop].rec = r
         THEN /\ SetCall(recorders[r].onstop,
                    [calls[recorders[r].onstop] EXCEPT !.pc = "done", !.rec = 0,
                                                      !.res = WebmResult(r)])
              /\ cleanupMediaRecorder
         ELSE UNCHANGED <<calls, mediaRecorder, chunks, mediaStream>>
    /\ UNCHANGED <<envVars, audioCtx, sourceNode, workletNode, pcmBuffers, sampleRate,
                   contexts, nodes, ncalls, histVars>>
    /\ UNCHANGED <<compVars, encVars>>

\* the recorder becomes inactive on its own (its track ended, or it failed)
RecorderEnds(r) ==
    /\ recorders[r].state # "inactive"
    /\ ~MicrotaskPending
    /\ recorders' = [recorders EXCEPT ![r].state = "inactive", ![r].ev = "data"]
    /\ UNCHANGED <<envVars, fieldVars, contexts, nodes, calls, ncalls, histVars>>
    /\ UNCHANGED <<compVars, encVars>>

\* port.onmessage of a producing tap: copy the block and append it
BlockDelivered(n) ==
    /\ Producing(n)
    /\ nodes[n].on
    /\ ~MicrotaskPending
    /\ Len(pcmBuffers) < MaxBuf
    /\ pcmBuffers' = Append(pcmBuffers, n)
    /\ UNCHANGED <<envVars, mediaStream, mediaRecorder, chunks, audioCtx, sourceNode,
                   workletNode, sampleRate, platformVars, calls, ncalls, histVars>>
    /\ UNCHANGED <<compVars, encVars>>

\* a block posted before the tap was torn down arrives afterwards
LateBlock(n) ==
    /\ nodes[n].st = "late"
    /\ ~MicrotaskPending
    /\ nodes[n].on => Len(pcmBuffers) < MaxBuf
    /\ nodes' = [nodes EXCEPT ![n] = [ctx |-> 0, on |-> FALSE, st |-> "dead"]]
    /\ pcmBuffers' = IF nodes[n].on THEN Append(pcmBuffers, n) ELSE pcmBuffers
    /\ UNCHANGED <<envVars, mediaStream, mediaRecorder, chunks, audioCtx, sourceNode,
                   workletNode, sampleRate, recorders, contexts, calls, ncalls, histVars>>
    /\ UNCHANGED <<compVars, encVars>>

PlatformEvent ==
    \/ \E c \in Slots : Grant(c) \/ Deny(c) \/ ModuleLoaded(c)
    \/ \E r \in 1..Len(recorders) :
          \/ \E size \in {0, 1} : DataAvailable(r, size)
          \/ OnStop(r)
          \/ RecorderEnds(r)
    \/ \E n \in 1..Len(nodes) : BlockDelivered(n) \/ LateBlock(n)

Continue == \E c \in Slots : StartResume(c)

\* ------------------------------------------ the service driven through its API
ApiStart(c, format, desired) == StartCall(c, format, desired) /\ UNCHANGED <<compVars, encVars>>
ApiStop(c, format) == StopCall(c, format) /\ UNCHANGED <<compVars, encVars>>

ApiCall ==
    \E c \in Slots :
        \/ PrepareCall(c)
        \/ \E f \in Formats, d \in DesiredRates : ApiStart(c, f, d)
        \/ \E f \in Formats : ApiStop(c, f)

Next ==
    \/ ApiCall
    \/ Continue
    \/ Pause
    \/ Resume
    \/ PlatformEvent

Spec == Init /\ [][Next]_vars

\* the platform delivers the events it has pending, and microtasks run
Delivery ==
    \/ \E r \in 1..Len(recorders) : (\E size \in {0, 1} : DataAvailable(r, size)) \/ OnStop(r)
    \/ \E c \in Slots : ModuleLoaded(c)
FairSpec ==
    /\ Spec
    /\ WF_vars(Delivery)
    /\ WF_vars(Continue)


\* the service on a platform whose teardown calls may throw
FaultInit ==
    /\ Constructed
    /\ teardownFails \in TeardownFaults \ {"none"}
    /\ encBuffers = <<>>
    /\ encSampleRate = DefaultSampleRate
    /\ encBlob = <<>>

FaultSpec == FaultInit /\ [][Next]_vars

\* ------------------------------------------------------ AngularVoice component

\* URL.revokeObjectURL that releases nothing
revokeObjectURLKeeps(live, url) == live

\* URL.revokeObjectURL(url): url stops being live; revoking again does nothing
revokeObjectURL(live, url) == live \ {url}

\* if (this.previousUrl) URL.revokeObjectURL(this.previousUrl)
revokePrevious ==
    IF previousUrl # 0 THEN revokeObjectURL(liveUrls, previousUrl) ELSE liveUrls

\* audioUrl, a computed signal: recomputed when read after result changed.
\* The record is <<previousUrl, value, live object URLs, URLs created>>.
audioUrlRead ==
    IF ~urlDirty
      THEN [prev |-> previousUrl, val |-> urlMemo, live |-> liveUrls, n |-> nurls]
    ELSE IF result = NoResult
      THEN [prev |-> 0, val |-> 0, live |-> revokePrevious, n |-> nurls]
      ELSE [prev |-> nurls + 1, val |-> nurls + 1,
            live |-> revokePrevious \cup {nurls + 1}, n |-> nurls + 1]

\* the template (or a parent) reads audioUrl()
Render ==
    /\ ~MicrotaskPending
    /\ urlDirty
    /\ previousUrl' = audioUrlRead.prev
    /\ urlMemo' = audioUrlRead.val
    /\ liveUrls' = audioUrlRead.live
    /\ nurls' = audioUrlRead.n
    /\ urlDirty' = FALSE
    /\ UNCHANGED <<svcVars, recording, result, hasFile, toggles, emitted>>
    /\ UNCHANGED encVars

Emission(file, by) == [file |-> file, by |-> by]

\* toggleRecord(), up to its await; by = who invoked it
toggleRecord(c, by) ==
    IF ~recording /\ result = NoResult
      THEN \* result.set(null); await recorder.start('webm')
           /\ StartCall(c, "webm", 0)
           /\ toggles' = [toggles EXCEPT ![c] = [kind |-> "start", by |-> by]]
    ELSE IF recording
      THEN \* await recorder.stop('webm')
           /\ StopCall(c, "webm")
           /\ toggles' = [toggles EXCEPT ![c] = [kind |-> "stop", by |-> by]]
      ELSE \* a result is held and nothing is recorded: no branch is taken
           /\ c = 1
           /\ UNCHANGED <<svcVars, toggles>>

\* the user clicks the record button
ToggleRecord(c) ==
    /\ ~MicrotaskPending
    /\ toggleRecord(c, "user")
    /\ UNCHANGED <<recording, result, hasFile, previousUrl, urlMemo, urlDirty, liveUrls,
                   nurls, emitted>>
    /\ UNCHANGED encVars

\* an await that lets a rejection pass as if the call had succeeded
awaitSwallows(c) == FALSE

\* await of a rejected promise throws: the rest of toggleRecord() is skipped
awaitThrows(c) == calls[c].pc = "failed"

\* toggleRecord() resumes when the service call it awaits has settled; the stop
\* branch stores the result and calls send(), which emits the file
ToggleResume(c) ==
    /\ toggles[c] # NoToggle
    /\ Settled(c)
    /\ toggles' = [toggles EXCEPT ![c] = NoToggle]
    /\ IF awaitThrows(c)
         THEN \* the rejection leaves toggleRecord() through its await
              UNCHANGED <<recording, result, hasFile, urlDirty, emitted>>
         ELSE IF toggles[c].kind = "start"
         THEN /\ recording' = TRUE
              /\ emitted' = Append(emitted, Emission(FALSE, toggles[c].by))
              /\ UNCHANGED <<result, hasFile, urlDirty>>
         ELSE /\ recording' = FALSE
              /\ result' = calls[c].res
              /\ urlDirty' = TRUE
              /\ hasFile' = TRUE
              /\ emitted' = Append(emitted, Emission(TRUE, toggles[c].by))
    /\ UNCHANGED <<svcVars, previousUrl, urlMemo, liveUrls, nurls>>
    /\ UNCHANGED encVars

\* send() invoked on its own
Send ==
    /\ ~MicrotaskPending
    /\ result # NoResult
    /\ Len(emitted) < MaxEmit
    /\ recording' = FALSE
    /\ hasFile' = TRUE
    /\ emitted' = Append(emitted, Emission(TRUE, "user"))
    /\ UNCHANGED <<svcVars, result, previousUrl, urlMemo, urlDirty, liveUrls, nurls, toggles>>
    /\ UNCHANGED encVars

\* discard(): stop through toggleRecord() if recording, revoke the URL, reset
Discard(c) ==
    /\ ~MicrotaskPending
    /\ IF recording
         THEN toggleRecord(c, "discard")
         ELSE c = 1 /\ UNCHANGED <<svcVars, toggles>>
    /\ previousUrl' = audioUrlRead.prev
    /\ nurls' = audioUrlRead.n
    /\ liveUrls' = IF audioUrlRead.val # 0
                      THEN revokeObjectURL(audioUrlRead.live, audioUrlRead.val)
                      ELSE audioUrlRead.live
    /\ result' = NoResult
    /\ IF result # NoResult
         THEN urlDirty' = TRUE /\ urlMemo' = audioUrlRead.val
         ELSE urlDirty' = FALSE /\ urlMemo' = audioUrlRead.val
    /\ hasFile' = FALSE
    /\ UNCHANGED <<recording, emitted>>
    /\ UNCHANGED encVars

CompNext ==
    \/ \E c \in Slots : ToggleRecord(c)
    \/ \E c \in Slots : Discard(c)
    \/ Send
    \/ Render
    \/ \E c \in Slots : ToggleResume(c)
    \/ Continue
    \/ PlatformEvent

CompSpec == Init /\ [][CompNext]_vars

\* ------------------------------------------------------------ encodeWavFromPcm
\* A sample is a multiple of 1/SampleDen, held as its numerator, so 2.0 is
\* 2 * SampleDen.  Every such value is an exact Float32.
SampleDen == 2
Samples == {-5 * SampleDen, -SampleDen, -1, 0, 1, SampleDen, 2 * SampleDen}
EncRates == {44100, 48000, 96000}
Blocks == UNION {[1..n -> Samples] : n \in 0..MaxBlockLen}
BlockSeqs == UNION {[1..n -> Blocks] : n \in 0..MaxBlocks}

Min(a, b) == IF a < b THEN a ELSE b
Max(a, b) == IF a > b THEN a ELSE b
\* the integer part of a / b (b > 0), as a conversion of a Number to an integer takes it
Trunc(a, b) == IF a >= 0 THEN a \div b ELSE -((-a) \div b)
\* what storing an integer into an Int16Array element keeps
ToInt16(v) == ((v + 32768) % 65536) - 32768

\* buffers.reduce((acc, b) => acc + b.length, 0)
RECURSIVE totalLength(_)
totalLength(buffers) ==
    IF buffers = <<>> THEN 0 ELSE Len(Head(buffers)) + totalLength(Tail(buffers))

\* interleaved.set(b, offset) for every block, in order
RECURSIVE interleaved(_)
interleaved(buffers) ==
    IF buffers = <<>> THEN <<>> ELSE Head(buffers) \o interleaved(Tail(buffers))

\* a quantizer that scales without clamping
noClamp(s) == s

\* Math.max(-1, Math.min(1, s))
clamp(s) == Max(-SampleDen, Min(SampleDen, s))

\* pcm16[i] = s < 0 ? s * 0x8000 : s * 0x7fff
pcm16(s) ==
    ToInt16(IF clamp(s) < 0 THEN Trunc(clamp(s) * 32768, SampleDen)
                            ELSE Trunc(clamp(s) * 32767, SampleDen))

\* view.setUint32 writing the most significant byte first
write32BigEndian(v) ==
    <<v \div 16777216, (v \div 65536) % 256, (v \div 256) % 256, v % 256>>

\* writeStr: one byte per character code
RIFF == <<82, 73, 70, 70>>
WAVE == <<87, 65, 86, 69>>
fmt == <<102, 109, 116, 32>>
data == <<100, 97, 116, 97>>
\* view.setUint16(p, v, true)
write16(v) == <<(v % 65536) % 256, (v % 65536) \div 256>>
\* view.setUint32(p, v, true).  Every value written here (sizes, rates of an
\* audio context, byte rates) is a non-negative integer far below 2^31, so the
\* reduction modulo 2^32 leaves it as it is.
write32(v) ==
    <<v % 256, (v \div 256) % 256, (v \div 65536) % 256, v \div 16777216>>

blockAlign == (1 * 16) \div 8
\* u8[idx] = pcm16[i] & 0xff; u8[idx + 1] = (pcm16[i] >> 8) & 0xff
RECURSIVE pcmBytes(_)
pcmBytes(samples) ==
    IF samples = <<>> THEN <<>>
    ELSE <<pcm16(Head(samples)) % 256, (pcm16(Head(samples)) % 65536) \div 256>>
            \o pcmBytes(Tail(samples))

\* encodeWavFromPcm(buffers, sampleRate): the bytes of the Blob
encodeWavFromPcm(buffers, rate) ==
    LET dataSize == Len(interleaved(buffers)) * 2
        byteRate == rate * blockAlign
    IN  RIFF \o write32(36 + dataSize) \o WAVE \o fmt \o write32(16) \o write16(1)
          \o write16(1) \o write32(rate) \o write32(byteRate) \o write16(blockAlign)
          \o write16(16) \o data \o write32(dataSize)
          \o pcmBytes(interleaved(buffers))

\* the encoder applied to the arguments drawn at the start
Encode ==
    /\ encBlob = <<>>
    /\ encBlob' = encodeWavFromPcm(encBuffers, encSampleRate)
    /\ UNCHANGED <<svcVars, compVars, encBuffers, encSampleRate>>

\* the encoder does not look at the environment: one environment is enough
EncInit ==
    /\ Constructed
    /\ isBrowser
    /\ supported = {}
    /\ teardownFails = "none"
    /\ encBuffers \in BlockSeqs
    /\ encSampleRate \in EncRates
    /\ encBlob = <<>>

EncNext == Encode

EncSpec == EncInit /\ [][EncNext]_vars

\* reading the bytes back, little-endian (positions count from 1)
read16(b, p) == b[p] + 256 * b[p + 1]
read32(b, p) == b[p] + 256 * b[p + 1] + 65536 * b[p + 2] + 16777216 * b[p + 3]
readInt16(b, p) == ToInt16(read16(b, p))

\* ------------------------------------------------------------ step predicates
\* a step in which slot c receives a new call
Issued(c) == ncalls' = ncalls + 1 /\ NextSlot(c)
\* a step in which a stop() in slot c returns its RecordingResult
StopReturns(c) ==
    /\ calls'[c].op = "stop"
    /\ calls'[c].pc = "done"
    /\ calls[c].pc = "ack" \/ Issued(c)
\* a step of stop(): its synchronous part or its continuation
StopStep(c) ==
    /\ calls'[c].op = "stop"
    /\ Issued(c) \/ (calls[c].pc = "ack" /\ calls'[c].pc # "ack")
ReturnedStop(c) == calls[c].op = "stop" /\ calls[c].pc = "done"
ServiceIdle ==
    /\ ~HoldsSession
    /\ chunks = <<>>
    /\ pcmBuffers = <<>>
    /\ LiveRecorders = {}
    /\ LiveTaps = {}

\* -------------------------------------------------------------------- claims

\* C1: a stop() issued while the service holds no capture session (no start()
\* was ever called, or the session was already stopped) fails; it never returns
\* a RecordingResult.
C1_StopWithoutSessionFails ==
    \A c \in Slots : (calls[c].op = "stop" /\ calls[c].idle) => calls[c].pc # "done"

\* C2: at most one producer (a MediaRecorder that is not inactive, or a
\* connected sample tap) is live at any time.
C2_AtMostOneProducer ==
    Cardinality(LiveRecorders) + Cardinality(LiveTaps) <= 1

\* C3: when a compressed stop() returns, its result contains every chunk its
\* recorder delivered through ondataavailable before the stop acknowledgment.
C3_ResultHoldsDeliveredChunks ==
    [][\A c \in Slots :
          (StopReturns(c) /\ calls[c].pc = "ack" /\ recorders[calls[c].rec].sent)
              => \E i \in 1..Len(calls'[c].res.data) :
                     calls'[c].res.data[i] = calls[c].rec]_vars

\* C4: every stop() that waits for the recorder's acknowledgment eventually
\* returns its result.
C4_StopEventuallyReturns ==
    \A c \in Slots :
        (calls[c].op = "stop" /\ calls[c].pc = "ack") ~> (calls[c].pc = "done")

\* C5: when stop() returns, the service is Idle: no recorder handle, no audio
\* graph held or running, both fragment buffers empty.
C5_StopLeavesServiceIdle ==
    [][\A c \in Slots : StopReturns(c) => ServiceIdle']_vars

\* C6: the rate written into a WAV result of a stop() issued during a capture
\* session is the rate negotiated with that session's audio context.
C6_WavRateIsNegotiated ==
    \A c \in Slots :
        (ReturnedStop(c) /\ calls[c].res.mime = Wav /\ ~calls[c].idle)
            => /\ calls[c].res.ctx # 0
               /\ calls[c].res.rate = contexts[calls[c].res.ctx].rate

\* C7 as stated: with prepare()/start() calls issued one after the other,
\* getUserMedia is invoked at most once.
C7_SequentialInvokesOnce == ~overlap => gumCalls <= 1

\* C7 amended: with prepare()/start() calls issued one after the other, at most
\* one stream is ever granted and no getUserMedia request is made or pending
\* while a stream is held.
C7_SequentialGrantsOnce ==
    ~overlap => /\ granted <= 1
                /\ mediaStream # 0 => \A c \in Slots : calls[c].pc # "gum"
C7_Witness ==
    /\ ~overlap
    /\ granted = 1
    /\ gumCalls = 1
    /\ ncalls = 2
    /\ Len(recorders) + Len(nodes) = 2

\* C8: no step of stop(), on either path, changes the shared input stream or
\* acquires one, and with a stream held a following start() acquires none.
C8_StopKeepsStream ==
    [][\A c \in Slots :
          StopStep(c) => /\ mediaStream' = mediaStream
                         /\ granted' = granted
                         /\ gumCalls' = gumCalls
                         /\ (mediaStream # 0 /\ isBrowser) => prepareReturnsEarly']_vars
C8_Witness ==
    /\ mediaStream # 0
    /\ \E c, d \in Slots :
          /\ ReturnedStop(c) /\ calls[c].res.mime = Wav
          /\ ReturnedStop(d) /\ calls[d].res.mime # Wav

\* C9: while a capture session is held and no stop() is in progress, a step
\* that is not the return of a stop() only appends to the fragment buffers.
C9_BuffersAppendOnly ==
    [][(/\ HoldsSession
        /\ \A c \in Slots : ~(calls[c].op = "stop" /\ calls[c].pc = "ack")
        /\ \A c \in Slots : ~StopReturns(c))
          => IsPrefix(chunks, chunks') /\ IsPrefix(pcmBuffers, pcmBuffers')]_vars

\* C10: no File is emitted on recordingCompleted by the toggleRecord() that
\* discard() invoked.
C10_DiscardEmitsNoFile ==
    \A i \in 1..Len(emitted) : emitted[i].file => emitted[i].by # "discard"

\* the component after a completed discard(): nothing recorded, nothing held
DiscardReset ==
    /\ ~recording
    /\ result = NoResult
    /\ audioUrlRead.val = 0
    /\ ~HoldsSession

\* C11: when discard() and the work it started are over (discard() itself when
\* nothing was being recorded, else the toggleRecord() it invoked), recording
\* is false, result and audioUrl are null and the service holds no capture.
C11_DiscardResets ==
    [][(\/ \E c \in Slots : toggles[c].by = "discard" /\ toggles'[c] = NoToggle
        \/ ~recording /\ result # NoResult /\ result' = NoResult)
          => DiscardReset']_vars

\* C12: at most one object URL is live at any time; when audioUrl is recomputed
\* for a result only the URL just created can be live afterwards, and when it
\* is recomputed with no result no URL is live afterwards.
C12_OneLiveUrl ==
    /\ [](Cardinality(liveUrls) <= 1)
    /\ [][/\ nurls' # nurls => liveUrls' \subseteq {nurls'}
          /\ (urlDirty /\ ~urlDirty' /\ result' = NoResult) => liveUrls' = {}]_vars
\* the object URL of a second result is live, the first one was revoked
C12_Witness ==
    /\ nurls = 2
    /\ liveUrls = {2}
    /\ previousUrl = 2
    /\ ~urlDirty
    /\ result # NoResult

\* a step that emits on recordingCompleted, and what it emits
Emits == Len(emitted') = Len(emitted) + 1
LastEmitted == emitted'[Len(emitted')]

C14_CancelEmitsNull ==
    [][(\/ \E c \in Slots : toggles[c].by = "discard" /\ toggles'[c] = NoToggle
        \/ ~recording /\ result # NoResult /\ result' = NoResult)
          => Emits /\ ~LastEmitted.file]_vars

\* C15: the encoder returns 44 + 2N bytes for N samples in total, and its
\* header reads back, little-endian, as RIFF size 36 + 2N, format 1, one
\* channel, the given rate, byte rate 2R, block align 2, 16 bits, data size 2N.
C15_WavHeader ==
    encBlob # <<>> =>
        /\ Len(encBlob) = 44 + 2 * totalLength(encBuffers)
        /\ SubSeq(encBlob, 1, 4) = <<82, 73, 70, 70>>
        /\ read32(encBlob, 5) = 36 + 2 * totalLength(encBuffers)
        /\ SubSeq(encBlob, 9, 16) = <<87, 65, 86, 69, 102, 109, 116, 32>>
        /\ read32(encBlob, 17) = 16
        /\ read16(encBlob, 21) = 1
        /\ read16(encBlob, 23) = 1
        /\ read32(encBlob, 25) = encSampleRate
        /\ read32(encBlob, 29) = 2 * encSampleRate
        /\ read16(encBlob, 33) = 2
        /\ read16(encBlob, 35) = 16
        /\ SubSeq(encBlob, 37, 40) = <<100, 97, 116, 97>>
        /\ read32(encBlob, 41) = 2 * totalLength(encBuffers)
\* several non-empty blocks were encoded at a rate that needs three bytes
C15_Witness ==
    /\ encBlob # <<>>
    /\ Len(encBuffers) >= 2
    /\ \A i \in 1..Len(encBuffers) : Len(encBuffers[i]) >= 1
    /\ encSampleRate > 65535

\* C16: a sample above 1.0 is stored as 32767 and one below -1.0 as -32768;
\* a sample in [-1, 0) is stored as sample * 32768 and one in [0, 1] as the
\* integer part of sample * 32767; every stored value is a 16-bit integer.
C16_ClampThenScale ==
    encBlob # <<>> =>
        \A i \in 1..Len(interleaved(encBuffers)) :
            LET s == interleaved(encBuffers)[i]
                v == readInt16(encBlob, 43 + 2 * i)
            IN  /\ v >= -32768 /\ v <= 32767
                /\ s > SampleDen => v = 32767
                /\ s < -SampleDen => v = -32768
                /\ (s < 0 /\ s >= -SampleDen) => v * SampleDen = s * 32768
                /\ (s >= 0 /\ s <= SampleDen) =>
                       /\ v * SampleDen <= s * 32767
                       /\ s * 32767 < (v + 1) * SampleDen
\* a sample above 1.0, one below -1.0 and one inside the range were encoded
C16_Witness ==
    /\ encBlob # <<>>
    /\ \E i, j \in 1..Len(interleaved(encBuffers)) :
          /\ interleaved(encBuffers)[i] > SampleDen
          /\ interleaved(encBuffers)[j] < -SampleDen

\* C17: when stop() returns the WAV result of a raw-capture session, every
\* block in it was delivered by the tap of that session.
C17_ResultIsSessionBlocks ==
    [][\A c \in Slots :
          (StopReturns(c) /\ workletNode # 0 /\ calls'[c].res.mime = Wav)
              => \A i \in 1..Len(calls'[c].res.data) :
                     calls'[c].res.data[i] = workletNode]_vars

\* C18: start(format) creates and starts a MediaRecorder, and no audio
\* context, exactly when format is 'webm' and 'audio/webm' is supported; in
\* every other case it creates an audio context and no recorder; a start()
\* that succeeds has created either a recorder or a sample tap, never both.
C18_StrategyByFormatAndSupport ==
    [][\A c \in Slots :
          /\ (calls[c].pc = "prepared" /\ calls'[c].pc # "prepared") =>
                IF calls[c].format = "webm" /\ Webm \in supported
                  THEN /\ Len(recorders') = Len(recorders) + 1
                       /\ mediaRecorder' = Len(recorders')
                       /\ recorders'[mediaRecorder'].state = "recording"
                       /\ contexts' = contexts /\ nodes' = nodes
                       /\ audioCtx' = audioCtx
                       /\ calls'[c].pc = "done"
                  ELSE /\ Len(contexts') = Len(contexts) + 1
                       /\ audioCtx' = Len(contexts')
                       /\ recorders' = recorders
                       /\ mediaRecorder' = mediaRecorder
          /\ (calls[c].op = "start" /\ calls[c].pc # "done" /\ calls'[c].op = "start"
                  /\ calls'[c].pc = "done") =>
                (Len(recorders') = Len(recorders) + 1 /\ nodes' = nodes)
                   # (Len(nodes') = Len(nodes) + 1 /\ nodes'[Len(nodes')].st = "live"
                        /\ recorders' = recorders)]_vars
\* on a platform with 'audio/webm' both strategies were armed, by start('webm')
\* and by start('wav')
C18_Witness ==
    /\ supported # {}
    /\ mediaRecorder # 0
    /\ workletNode # 0
    /\ Producing(workletNode)

\* C19: while the tap of the raw session is paused (its message handler is
\* detached, and the step does not resume it) no block is appended to
\* pcmBuffers; pause() and resume() with no session held change nothing.
C19_PausedAppendsNothing ==
    [][/\ (/\ workletNode # 0 /\ ~nodes[workletNode].on
           /\ workletNode' = workletNode /\ ~nodes'[workletNode].on)
             => Len(pcmBuffers') <= Len(pcmBuffers)
       /\ (~HoldsSession /\ calls' = calls /\ recorders' # recorders) => FALSE
       /\ (~HoldsSession /\ calls' = calls /\ pcmBuffers' = pcmBuffers
              /\ nodes' # nodes) => \E n \in 1..Len(nodes) : nodes[n].st = "late"]_vars

\* C20: when stop() returns on the raw path, the tap and the source have been
\* disconnected and the context closed, except for a call that itself threw;
\* the call returns its result, and the handles and the buffer are cleared.
C20_TeardownAttemptsAll ==
    [][\A c \in Slots :
          (Issued(c) /\ calls'[c].op = "stop" /\ calls'[c].pc # "ack" /\ audioCtx # 0
             /\ isBrowser)
            => /\ contexts'[audioCtx].closed \/ teardownFails = "close"
               /\ sourceNode # 0 =>
                     nodes'[sourceNode].st # "live" \/ teardownFails = "source"
               /\ workletNode # 0 =>
                     nodes'[workletNode].st # "live" \/ teardownFails = "tap"
               /\ calls'[c].pc = "done"
               /\ calls'[c].res.mime = Wav
               /\ workletNode' = 0 /\ sourceNode' = 0 /\ audioCtx' = 0
               /\ pcmBuffers' = <<>>]_vars

\* C21: a fragment is appended to a buffer only by the producer the service
\* holds at that moment: a block by the held tap, a chunk by the held recorder.
C21_FragmentsStayInSession ==
    [][/\ Len(pcmBuffers') > Len(pcmBuffers) =>
             /\ workletNode # 0
             /\ pcmBuffers'[Len(pcmBuffers')] = workletNode
       /\ Len(chunks') > Len(chunks) =>
             /\ mediaRecorder # 0
             /\ chunks'[Len(chunks')] = mediaRecorder]_vars

\* C22: also when prepare()/start() calls overlap, at most one stream is ever
\* granted, and every granted stream is the one the service refers to.
C22_OverlapAcquiresOnce ==
    /\ granted <= 1
    /\ \A n \in 1..granted : mediaStream = n

\* C23: a toggleRecord() issued while another one is awaiting start() (stop())
\* does not call start() (stop()) again, and with no toggleRecord() in flight
\* recording is true exactly when the service holds a recorder or a tap.
C23_FlagAgreesWithService ==
    /\ []((\A c \in Slots : toggles[c] = NoToggle)
            => (recording <=> (mediaRecorder # 0 \/ workletNode # 0)))
    /\ [][\A c \in Slots :
            (toggles[c] = NoToggle /\ toggles'[c] # NoToggle)
                => \A d \in Slots : toggles[d].kind # toggles'[c].kind]_vars

\* C24: once the File of a completed recording is the last thing emitted and no
\* toggleRecord() is in flight, the next toggleRecord() takes its start branch
\* (nothing is being recorded and no result is held).
C24_CycleRepeats ==
    (/\ emitted # <<>>
     /\ emitted[Len(emitted)].file
     /\ \A c \in Slots : toggles[c] = NoToggle)
        => (~recording /\ result = NoResult)
====
